---- MODULE Spec2Model ----
(***************************************************************************)
(* Model of scripts/precision_scaling.py (calculate_cv, optimize_scaling)  *)
(* and of calculate_bullwhip in visualization/visualize_results.py.        *)
(*                                                                         *)
(* Numbers are binary floating-point values with round-to-nearest-even,    *)
(* as numpy's float64, but with a mantissa of Precision bits instead of    *)
(* 53 and an unbounded exponent (no overflow, no subnormals; zero has no   *)
(* sign).  inf and nan behave as in IEEE 754: numpy divisions by zero      *)
(* warn and yield inf or nan, they do not raise.                           *)
(***************************************************************************)
EXTENDS Integers, Sequences, FiniteSets, TLC

\* bits of mantissa of the modelled floating-point format
Precision == 8

\* largest number of elements of original_data
MaxLen == 2

(***************************************************************************)
(* Floating-point values                                                   *)
(***************************************************************************)
Fin(s, m, e) == [k |-> "fin", s |-> s, m |-> m, e |-> e]
Zero == [k |-> "fin", s |-> 1, m |-> 0, e |-> 0]
Inf(s) == [k |-> "inf", s |-> s, m |-> 0, e |-> 0]
NaN == [k |-> "nan", s |-> 1, m |-> 0, e |-> 0]

IsNaN(a) == a.k = "nan"
IsInf(a) == a.k = "inf"
IsFin(a) == a.k = "fin"
IsZero(a) == a.k = "fin" /\ a.m = 0

RECURSIVE BitLen(_)
BitLen(n) == IF n = 0 THEN 0 ELSE 1 + BitLen(n \div 2)

\* the float nearest to s * (n + f) * 2^e, where 0 < f < 1 if sticky and
\* f = 0 otherwise; ties go to the even mantissa.  A sticky n has more
\* than Precision bits.
Normalize(s, n, e, sticky) ==
    IF n = 0 THEN Zero
    ELSE LET b == BitLen(n) IN
         IF b <= Precision
         THEN Fin(s, n * 2^(Precision - b), e - (Precision - b))
         ELSE LET d == b - Precision
                  q == n \div 2^d
                  r == n % 2^d
                  half == 2^(d - 1)
                  up == r > half \/ (r = half /\ (sticky \/ q % 2 = 1))
                  q2 == IF up THEN q + 1 ELSE q
              IN IF q2 = 2^Precision
                 THEN Fin(s, 2^(Precision - 1), e + d + 1)
                 ELSE Fin(s, q2, e + d)

FNeg(a) == IF IsNaN(a) \/ IsZero(a) THEN a ELSE [a EXCEPT !.s = 0 - a.s]

FAbs(a) == IF IsNaN(a) THEN a ELSE [a EXCEPT !.s = 1]

FAddFin(a, b) ==
    IF a.m = 0 THEN b
    ELSE IF b.m = 0 THEN a
    ELSE LET hi == IF a.e >= b.e THEN a ELSE b
             lo == IF a.e >= b.e THEN b ELSE a
             d == hi.e - lo.e
         IN IF d > Precision + 1
            THEN Normalize(hi.s, IF hi.s = lo.s THEN hi.m * 4 ELSE hi.m * 4 - 1,
                           hi.e - 2, TRUE)
            ELSE LET v == hi.s * hi.m * 2^d + lo.s * lo.m
                 IN Normalize(IF v < 0 THEN -1 ELSE 1,
                              IF v < 0 THEN 0 - v ELSE v, lo.e, FALSE)

FAdd(a, b) ==
    IF IsNaN(a) \/ IsNaN(b) THEN NaN
    ELSE IF IsInf(a) /\ IsInf(b) THEN (IF a.s = b.s THEN a ELSE NaN)
    ELSE IF IsInf(a) THEN a
    ELSE IF IsInf(b) THEN b
    ELSE FAddFin(a, b)

FSub(a, b) == FAdd(a, FNeg(b))

FMul(a, b) ==
    IF IsNaN(a) \/ IsNaN(b) THEN NaN
    ELSE IF IsInf(a) \/ IsInf(b)
         THEN (IF IsZero(a) \/ IsZero(b) THEN NaN ELSE Inf(a.s * b.s))
    ELSE Normalize(a.s * b.s, a.m * b.m, a.e + b.e, FALSE)

FDiv(a, b) ==
    IF IsNaN(a) \/ IsNaN(b) THEN NaN
    ELSE IF IsInf(a) THEN (IF IsInf(b) THEN NaN ELSE Inf(a.s * b.s))
    ELSE IF IsInf(b) THEN Zero
    ELSE IF b.m = 0 THEN (IF a.m = 0 THEN NaN ELSE Inf(a.s))
    ELSE IF a.m = 0 THEN Zero
    ELSE LET num == a.m * 2^(Precision + 2)
         IN Normalize(a.s * b.s, num \div b.m,
                      a.e - b.e - (Precision + 2), num % b.m # 0)

RECURSIVE ISqrt(_, _, _)
ISqrt(x, lo, hi) ==
    IF lo = hi THEN lo
    ELSE LET mid == (lo + hi + 1) \div 2
         IN IF mid * mid <= x THEN ISqrt(x, mid, hi) ELSE ISqrt(x, lo, mid - 1)

FSqrt(a) ==
    IF IsNaN(a) THEN NaN
    ELSE IF IsZero(a) THEN Zero
    ELSE IF a.s < 0 THEN NaN
    ELSE IF IsInf(a) THEN a
    ELSE LET t == IF (a.e - (Precision + 2)) % 2 = 0
                  THEN Precision + 2 ELSE Precision + 3
             x == a.m * 2^t
             r == ISqrt(x, 0, 2^(Precision + 2))
         IN Normalize(1, r, (a.e - t) \div 2, r * r # x)

\* a < b on the extended reals; every comparison with nan is false
FLtFin(a, b) ==
    IF a.m = 0 THEN b.m # 0 /\ b.s = 1
    ELSE IF b.m = 0 THEN a.s = -1
    ELSE IF a.s # b.s THEN a.s = -1
    ELSE IF a.s = 1 THEN a.e < b.e \/ (a.e = b.e /\ a.m < b.m)
    ELSE a.e > b.e \/ (a.e = b.e /\ a.m > b.m)

FLt(a, b) ==
    IF IsNaN(a) \/ IsNaN(b) THEN FALSE
    ELSE IF IsInf(a) THEN a.s = -1 /\ ~(IsInf(b) /\ b.s = -1)
    ELSE IF IsInf(b) THEN b.s = 1
    ELSE FLtFin(a, b)

FEq(a, b) == ~IsNaN(a) /\ ~IsNaN(b) /\ a = b

FLe(a, b) == FLt(a, b) \/ FEq(a, b)

\* conversion of an integer to the nearest float
IntToFloat(n) ==
    Normalize(IF n < 0 THEN -1 ELSE 1, IF n < 0 THEN 0 - n ELSE n, 0, FALSE)

\* the float nearest to the decimal literal n/d, as the Python parser reads it
Dec(n, d) == FDiv(IntToFloat(n), IntToFloat(d))

\* math.ceil of a finite float
FCeil(a) ==
    IF a.m = 0 THEN 0
    ELSE IF a.e >= 0 THEN a.s * a.m * 2^(a.e)
    ELSE IF 0 - a.e >= Precision THEN (IF a.s = 1 THEN 1 ELSE 0)
    ELSE LET q == a.m \div 2^(0 - a.e)
             r == a.m % 2^(0 - a.e)
         IN IF a.s = 1 THEN (IF r # 0 THEN q + 1 ELSE q) ELSE 0 - q


\* line 61 with ties rounded away from zero, as C's round() does
RoundHalfEven_HalfAway(a) ==
    IF a.m = 0 THEN 0
    ELSE IF a.e >= 0 THEN a.s * a.m * 2^(a.e)
    ELSE IF 0 - a.e > Precision THEN 0
    ELSE LET sh == 0 - a.e
             q == a.m \div 2^sh
             r == a.m % 2^sh
             half == 2^(sh - 1)
             up == r >= half
         IN a.s * (IF up THEN q + 1 ELSE q)

\* np.round (round half to even) of a finite float, as an integer
RoundHalfEven(a) ==
    IF a.m = 0 THEN 0
    ELSE IF a.e >= 0 THEN a.s * a.m * 2^(a.e)
    ELSE IF 0 - a.e > Precision THEN 0
    ELSE LET sh == 0 - a.e
             q == a.m \div 2^sh
             r == a.m % 2^sh
             half == 2^(sh - 1)
             up == r > half \/ (r = half /\ q % 2 = 1)
         IN a.s * (IF up THEN q + 1 ELSE q)

\* stand-ins for the limits of the 64-bit integers of astype(int)
IntMin == 0 - 2^30
IntMax == 2^30 - 1

\* the builds numpy runs on: the C cast of inf or nan to an integer is
\* undefined, x86-64 yields the minimum integer, aarch64 saturates
Archs == {"x86_64", "aarch64"}

\* np.round(x).astype(int) of one element
RoundCast(a, arch) ==
    IF IsFin(a) THEN RoundHalfEven(a)
    ELSE IF arch = "x86_64" THEN IntMin
    ELSE IF IsNaN(a) THEN 0
    ELSE IF a.s = 1 THEN IntMax ELSE IntMin

(***************************************************************************)
(* numpy reductions on arrays of fewer than 8 elements (plain left-to-     *)
(* right accumulation)                                                     *)
(***************************************************************************)
RECURSIVE SumTo(_, _)
SumTo(data, n) == IF n = 0 THEN Zero ELSE FAdd(SumTo(data, n - 1), data[n])

np_sum(data) == SumTo(data, Len(data))

np_mean(data) == FDiv(np_sum(data), IntToFloat(Len(data)))

np_std(data) ==
    LET mu == np_mean(data)
        sq == [i \in 1..Len(data) |->
                 FMul(FSub(data[i], mu), FSub(data[i], mu))]
    IN FSqrt(FDiv(np_sum(sq), IntToFloat(Len(data))))

\* an integer array seen by a float reduction
AsFloats(ints) == [i \in 1..Len(ints) |-> IntToFloat(ints[i])]

calculate_cv(data) == FDiv(np_std(data), np_mean(data))

\* the length of line 55 taken with a floor: the last point is lost when
\* stop - start is not a multiple of step
ArangeLen_Floor(start, stop, step) ==
    LET q == FDiv(FSub(stop, start), step)
        n == IF q.e >= 0 \/ q.m % 2^(0 - q.e) = 0
             THEN FCeil(q) ELSE FCeil(q) - 1
    IN IF n <= 0 THEN 0 ELSE n

\* len(np.arange(start, stop, step)) for a non-zero step
ArangeLen(start, stop, step) ==
    LET n == FCeil(FDiv(FSub(stop, start), step))
    IN IF n <= 0 THEN 0 ELSE n

\* np.arange(start, stop, step)[i - 1]
ArangeElem(start, step, i) ==
    IF i = 1 THEN start
    ELSE IF i = 2 THEN FAdd(start, step)
    ELSE FAdd(start, FMul(IntToFloat(i - 1),
                          FSub(FAdd(start, step), start)))

np_arange(start, stop, step) ==
    [i \in 1..ArangeLen(start, stop, step) |-> ArangeElem(start, step, i)]

(***************************************************************************)
(* One candidate of optimize_scaling                                       *)
(***************************************************************************)
ScaleFactor(base, mult) == FMul(base, mult)

\* line 60 written as an in-place product (original_data *= scale_factor):
\* the caller's array holds the scaled values afterwards
AfterScaling_InPlace(data, factor) ==
    [i \in 1..Len(data) |-> FMul(data[i], factor)]

\* line 60: original_data * scale_factor builds a new array and leaves the
\* caller's array as it was
AfterScaling(data, factor) == data

\* lines 60-61 with the rounded values laid out in reverse order
RoundedData_Reversed(data, factor, arch) ==
    [i \in 1..Len(data) |->
       RoundCast(FMul(data[Len(data) + 1 - i], factor), arch)]

RoundedData(data, factor, arch) ==
    [i \in 1..Len(data) |-> RoundCast(FMul(data[i], factor), arch)]

CvError(rounded, ocv) ==
    FDiv(FAbs(FSub(calculate_cv(AsFloats(rounded)), ocv)), ocv)

\* line 68 with <= in place of <
Improves_NonStrict(cv_error, best) == FLe(cv_error, best)

Improves(cv_error, best) == FLt(cv_error, best)

\* line 77 with its operands exchanged
WithinTarget_Swapped(cv_error, target) == FLe(target, cv_error)

WithinTarget(cv_error, target) == FLe(cv_error, target)

\* line 56 moved into the branch of line 68
CountVisit_InBranch(tried, improved) == IF improved THEN tried + 1 ELSE tried

CountVisit(tried, improved) == tried + 1

BaseScale(tmean, omean) == FDiv(tmean, omean)

\* Python's None and a present value
None == [some |-> FALSE, val |-> <<>>]
Some(x) == [some |-> TRUE, val |-> x]

\* line 71 moved out of the branch of line 68: the series of the candidate
\* just examined is kept whether or not it improved
UpdateBestData_Always(improved, rounded, kept) == Some(rounded)

\* lines 68-71: the series is replaced together with the error and the scale
UpdateBestData(improved, rounded, kept) ==
    IF improved THEN Some(rounded) ELSE kept

(***************************************************************************)
(* calculate_bullwhip                                                      *)
(***************************************************************************)
GuardedCv(data) ==
    IF FLt(Zero, np_mean(data)) THEN FDiv(np_std(data), np_mean(data))
    ELSE Zero

calculate_bullwhip(orders, demand) ==
    IF FLt(Zero, GuardedCv(demand))
    THEN FDiv(GuardedCv(orders), GuardedCv(demand))
    ELSE Zero

(***************************************************************************)
(* Inputs                                                                  *)
(***************************************************************************)
Values == {Dec(-1, 1), Dec(1, 1), Dec(3, 1)}

SeriesInputs == UNION {[1..n -> Values] : n \in 0..MaxLen}

TargetMeans == {Dec(5, 2), Dec(1, 4)}

TargetErrors == {Dec(1, 100), Dec(3, 10)}

MinScales == {Dec(1, 1), Dec(2, 1)}

MaxScales == {Dec(1, 1), Dec(11, 10), Dec(2, 1), Dec(5, 4)}

Steps == {Dec(1, 10), Dec(3, 10), Zero, Dec(-1, 2)}

VARIABLES original_data, target_mean, target_cv_error, min_scale, max_scale,
          step, verbose, arch,
          pc, original_cv, original_mean, base_scale,
          best_error, best_scale, best_data, scales_tried,
          multipliers, it, history, broke, exc, result,
          orders, demand, cv_result, bw_result,
          calls, first_call

inputs == <<original_data, target_mean, target_cv_error, min_scale, max_scale,
            step, verbose, arch>>

locals == <<original_cv, original_mean, base_scale, best_error, best_scale,
            best_data, scales_tried, multipliers, it, history, broke>>

cvvars == <<orders, demand, cv_result, bw_result>>

callvars == <<calls, first_call>>

vars == <<inputs, pc, locals, exc, result, cvvars, callvars>>

\* what a caller observes of a finished call
NoOutcome == [ended |-> FALSE]

Outcome == [ended |-> TRUE, pc |-> pc, exc |-> exc, result |-> result,
            scales_tried |-> scales_tried]

NoResult == [returned |-> FALSE, best_scale |-> NaN, best_data |-> None]

Pending == [done |-> FALSE]

\* the variables of optimize_scaling before the call
SearchIdle ==
    /\ original_cv = NaN
    /\ original_mean = NaN
    /\ base_scale = NaN
    /\ best_error = NaN
    /\ best_scale = NaN
    /\ best_data = None
    /\ scales_tried = 0
    /\ multipliers = <<>>
    /\ it = 0
    /\ history = <<>>
    /\ broke = FALSE
    /\ exc = "none"
    /\ result = NoResult

Init ==
    /\ original_data \in SeriesInputs
    /\ target_mean \in TargetMeans
    /\ target_cv_error \in TargetErrors
    /\ min_scale \in MinScales
    /\ max_scale \in MaxScales
    /\ step \in Steps
    /\ verbose \in BOOLEAN
    /\ arch \in Archs
    /\ pc = "start"
    /\ SearchIdle
    /\ orders = <<>>
    /\ demand = <<>>
    /\ cv_result = Pending
    /\ bw_result = Pending
    /\ calls = 0
    /\ first_call = NoOutcome

\* line 48 written as a value that outlives the call (a module-level
\* variable set once)
InitialBestError_Kept(stale) == IF IsNaN(stale) THEN Inf(1) ELSE stale

\* line 48: best_error is set anew in every call, whatever was there
InitialBestError(stale) == Inf(1)

\* lines 36-55: the statistics of the input, the initial best candidate and
\* the evaluation of np.arange, which divides by step
Start ==
    /\ pc = "start"
    /\ original_cv' = calculate_cv(original_data)
    /\ original_mean' = np_mean(original_data)
    /\ base_scale' = BaseScale(target_mean, np_mean(original_data))
    /\ best_error' = InitialBestError(best_error)
    /\ best_scale' = BaseScale(target_mean, np_mean(original_data))
    /\ best_data' = None
    /\ scales_tried' = 0
    /\ it' = 0
    /\ IF IsZero(step)
       THEN /\ pc' = "raised"
            /\ exc' = "ZeroDivisionError"
            /\ multipliers' = multipliers
       ELSE /\ pc' = "loop"
            /\ exc' = exc
            /\ multipliers' = np_arange(min_scale, max_scale, step)
    /\ UNCHANGED <<inputs, history, broke, result, cvvars, callvars>>

\* lines 55-80: one iteration of the for loop
Iterate ==
    /\ pc = "loop"
    /\ it < Len(multipliers)
    /\ LET scale_multiplier == multipliers[it + 1]
           scale_factor == ScaleFactor(base_scale, scale_multiplier)
           rounded_data == RoundedData(original_data, scale_factor, arch)
           cv_error == CvError(rounded_data, original_cv)
           improved == Improves(cv_error, best_error)
       IN /\ it' = it + 1
          /\ original_data' = AfterScaling(original_data, scale_factor)
          /\ scales_tried' = CountVisit(scales_tried, improved)
          /\ history' = Append(history,
                               [scale_multiplier |-> scale_multiplier,
                                scale_factor |-> scale_factor,
                                rounded_data |-> rounded_data,
                                cv_error |-> cv_error])
          /\ best_error' = IF improved THEN cv_error ELSE best_error
          /\ best_scale' = IF improved THEN scale_factor ELSE best_scale
          /\ best_data' = UpdateBestData(improved, rounded_data, best_data)
          /\ IF improved /\ WithinTarget(cv_error, target_cv_error)
             THEN broke' = TRUE /\ pc' = "report"
             ELSE broke' = broke /\ pc' = pc
    /\ UNCHANGED <<target_mean, target_cv_error, min_scale, max_scale, step,
                   verbose, arch, original_cv, original_mean, base_scale,
                   multipliers, exc, result, cvvars, callvars>>

\* line 55: the array is exhausted
Exhaust ==
    /\ pc = "loop"
    /\ it = Len(multipliers)
    /\ pc' = "report"
    /\ UNCHANGED <<inputs, locals, exc, result, cvvars, callvars>>

\* lines 82-89: the summary, where np.mean(None) raises, and the return
Report ==
    /\ pc = "report"
    /\ IF verbose /\ best_data = None
       THEN /\ pc' = "raised"
            /\ exc' = "TypeError"
            /\ result' = result
       ELSE /\ pc' = "returned"
            /\ exc' = exc
            /\ result' = [returned |-> TRUE, best_scale |-> best_scale,
                          best_data |-> best_data]
    /\ UNCHANGED <<inputs, locals, cvvars, callvars>>

Next == Start \/ Iterate \/ Exhaust \/ Report

(***************************************************************************)
(* The two coefficient-of-variation computations as functions of their     *)
(* arguments: neither has a raise statement, so raised stays FALSE         *)
(***************************************************************************)
InitCV ==
    /\ orders \in SeriesInputs
    /\ demand \in SeriesInputs
    /\ cv_result = Pending
    /\ bw_result = Pending
    /\ original_data = <<>>
    /\ target_mean = Dec(6, 1)
    /\ target_cv_error = Dec(1, 100)
    /\ min_scale = Dec(1, 1)
    /\ max_scale = Dec(100, 1)
    /\ step = Dec(1, 100)
    /\ verbose = TRUE
    /\ arch = "x86_64"
    /\ pc = "start"
    /\ SearchIdle
    /\ calls = 0
    /\ first_call = NoOutcome

\* precision_scaling.py, calculate_cv(orders)
CallCalculateCv ==
    /\ ~cv_result.done
    /\ cv_result' = [done |-> TRUE, raised |-> FALSE,
                     val |-> calculate_cv(orders)]
    /\ UNCHANGED <<inputs, pc, locals, exc, result, orders, demand, bw_result,
                   callvars>>

\* visualize_results.py, calculate_bullwhip(orders, demand)
CallCalculateBullwhip ==
    /\ ~bw_result.done
    /\ bw_result' = [done |-> TRUE, raised |-> FALSE,
                     cv_orders |-> GuardedCv(orders),
                     cv_demand |-> GuardedCv(demand),
                     val |-> calculate_bullwhip(orders, demand)]
    /\ UNCHANGED <<inputs, pc, locals, exc, result, orders, demand, cv_result,
                   callvars>>

NextCV == CallCalculateCv \/ CallCalculateBullwhip

SpecCV == InitCV /\ [][NextCV]_vars

Spec == Init /\ [][Next]_vars

(***************************************************************************)
(* Two calls in a row with the same arguments.  The second call starts     *)
(* from whatever the first one left in the variables of the function, so   *)
(* that only the assignments of lines 36-55 make it a fresh call.          *)
(***************************************************************************)
Reinvoke ==
    /\ pc \in {"returned", "raised"}
    /\ calls = 0
    /\ calls' = 1
    /\ first_call' = Outcome
    /\ pc' = "start"
    /\ exc' = "none"
    /\ result' = NoResult
    /\ history' = <<>>
    /\ broke' = FALSE
    /\ UNCHANGED <<inputs, original_cv, original_mean, base_scale, best_error,
                   best_scale, best_data, scales_tried, multipliers, it,
                   cvvars>>

NextRepeat == Start \/ Iterate \/ Exhaust \/ Report \/ Reinvoke

SpecRepeat == Init /\ [][NextRepeat]_vars

(***************************************************************************)
(* The candidates of a call, recomputed from its inputs alone              *)
(***************************************************************************)
Progression == IF IsZero(step) THEN <<>>
               ELSE np_arange(min_scale, max_scale, step)

Candidate(mult, base, ocv) ==
    LET factor == ScaleFactor(base, mult)
        rounded == RoundedData(original_data, factor, arch)
    IN [scale_multiplier |-> mult, scale_factor |-> factor,
        rounded_data |-> rounded, cv_error |-> CvError(rounded, ocv)]

Candidates ==
    LET prog == Progression
        base == BaseScale(target_mean, np_mean(original_data))
        ocv == calculate_cv(original_data)
    IN [k \in 1..Len(prog) |-> Candidate(prog[k], base, ocv)]

\* position in cands of the first candidate within the tolerance, 0 if none
FirstMeet(cands) ==
    LET meets == {k \in 1..Len(cands) : FLe(cands[k].cv_error, target_cv_error)}
    IN IF meets = {} THEN 0
       ELSE CHOOSE k \in meets : \A j \in meets : k <= j

\* the scan is over: by break, by exhaustion, or by the failure of the summary
Finished == pc \in {"report", "returned"} \/ (pc = "raised" /\ exc = "TypeError")

ValidRange == FLt(min_scale, max_scale) /\ FLt(Zero, step)

ValidSeries ==
    /\ Len(original_data) > 0
    /\ FLt(Zero, np_mean(original_data))
    /\ FLt(Zero, calculate_cv(original_data))

ValidInputs == ValidSeries /\ ValidRange /\ FLt(Zero, target_cv_error)

(***************************************************************************)
(* Claims                                                                  *)
(***************************************************************************)

\* C1: the scan stops at the first candidate, in increasing-multiplier
\* order, whose cv_error <= target_cv_error; that candidate is the best one
\* returned and no candidate after it is examined, whatever the errors of
\* the later candidates are.
C1_FirstSatisfyingWins ==
    pc # "start" =>
        LET cands == Candidates
            first == FirstMeet(cands)
        IN first # 0 =>
             /\ pc = "loop" => it < first
             /\ Finished =>
                  /\ broke
                  /\ it = first
                  /\ history = SubSeq(cands, 1, first)
                  /\ best_error = cands[first].cv_error
                  /\ best_scale = cands[first].scale_factor
                  /\ best_data = Some(cands[first].rounded_data)
             /\ pc = "returned" =>
                  /\ result.best_scale = cands[first].scale_factor
                  /\ result.best_data = Some(cands[first].rounded_data)

\* an early exit, on valid inputs, that leaves a strictly better candidate
\* unscanned
C1_Witness ==
    /\ pc = "returned"
    /\ broke
    /\ ValidInputs
    /\ LET cands == Candidates
       IN \E k \in (it + 1)..Len(cands) :
             FLt(cands[k].cv_error, best_error)

\* the smallest cv_error of cands, nan and inf candidates never being one
IsMinError(err, cands) ==
    /\ \E k \in 1..Len(cands) : FEq(cands[k].cv_error, err)
    /\ \A k \in 1..Len(cands) : ~FLt(cands[k].cv_error, err)

\* C2: on valid inputs, when no candidate of the progression has
\* cv_error <= target_cv_error, every candidate is examined and a best
\* candidate is returned whose cv_error is the minimum over the progression.
C2_ExhaustiveMinimum ==
    (Finished /\ ValidInputs) =>
        LET cands == Candidates
        IN FirstMeet(cands) = 0 =>
             /\ history = cands
             /\ best_data # None
             /\ IsMinError(best_error, cands)

\* C3: among examined candidates that share the minimum cv_error the
\* first-examined one is kept: the best candidate is the earliest candidate
\* of the history whose cv_error equals best_error.
C3_FirstOfTiesKept ==
    best_data # None =>
        LET ties == {k \in 1..Len(history) :
                        FEq(history[k].cv_error, best_error)}
        IN /\ ties # {}
           /\ \A k \in 1..Len(history) : ~FLt(history[k].cv_error, best_error)
           /\ LET first == CHOOSE k \in ties : \A j \in ties : k <= j
              IN /\ best_scale = history[first].scale_factor
                 /\ best_data = Some(history[first].rounded_data)

\* a finished scan in which two examined candidates of different scale
\* share the minimum cv_error
C3_Witness ==
    /\ pc = "returned"
    /\ best_data # None
    /\ \E j, k \in 1..Len(history) :
          /\ j < k
          /\ history[j].scale_factor # history[k].scale_factor
          /\ FEq(history[j].cv_error, best_error)
          /\ FEq(history[k].cv_error, best_error)

\* C4: scales_tried counts every multiplier visited: it is the number of
\* iterations made so far; after an early exit it is the position of the
\* first candidate within the tolerance, after exhaustion it is the length
\* of the progression, and for max_scale > min_scale and step > 0 it is at
\* least 1.
C4_CountsEveryVisit ==
    /\ scales_tried = it
    /\ scales_tried = Len(history)
    /\ Finished =>
         LET cands == Candidates
         IN /\ broke => scales_tried = FirstMeet(cands)
            /\ ~broke => scales_tried = Len(cands)
            /\ ValidRange => scales_tried >= 1

\* an early exit at the third candidate or later, after an iteration that
\* did not improve the best candidate
C4_Witness ==
    /\ Finished
    /\ broke
    /\ ValidInputs
    /\ scales_tried >= 3
    /\ \E k \in 2..Len(history) :
          ~FLt(history[k].cv_error, history[k - 1].cv_error)

\* the call has ended, by return or by an exception
Ended == pc \in {"returned", "raised"}

\* C5: on valid inputs the call never ends in an exception and always hands
\* a best candidate to the caller; the target is reported as met (the break
\* of line 80, the only record the code keeps of it) exactly when the
\* returned candidate's cv_error <= target_cv_error, and as not met exactly
\* when the progression was exhausted with no candidate within the tolerance.
C5_MetTargetNeverAnException ==
    (Ended /\ ValidInputs) =>
        /\ pc = "returned"
        /\ result.best_data # None
        /\ broke <=> FLe(best_error, target_cv_error)
        /\ ~broke <=> (FirstMeet(Candidates) = 0 /\ it = Len(multipliers))

\* C6: when max_scale <= min_scale or step <= 0 (the series being valid)
\* the call raises InvalidRangeError at once: it enters no loop and returns
\* nothing.
C6_InvalidRangeSignalled ==
    (pc # "start" /\ ~ValidRange /\ ValidSeries) =>
        /\ pc = "raised"
        /\ exc = "InvalidRangeError"
        /\ ~result.returned

\* C7: when the mean or the CV of original_data is 0 (the range being
\* valid) the call raises ZeroMeanError before any candidate is examined.
C7_ZeroMeanSignalled ==
    (/\ pc # "start"
     /\ ValidRange
     /\ Len(original_data) > 0
     /\ IsZero(np_mean(original_data)) \/ IsZero(calculate_cv(original_data)))
    => /\ pc = "raised"
       /\ exc = "ZeroMeanError"
       /\ history = <<>>

\* C8: when original_data is empty (the range being valid) the call raises
\* EmptyInputError, examines no candidate and returns nothing.
C8_EmptyInputSignalled ==
    (pc # "start" /\ ValidRange /\ original_data = <<>>) =>
        /\ pc = "raised"
        /\ exc = "EmptyInputError"
        /\ history = <<>>
        /\ ~result.returned

\* C9: a coefficient-of-variation computation on a series whose mean is 0
\* raises an error; it returns neither 0 nor any other value.
C9_ZeroMeanCvSignalled ==
    (Len(orders) > 0 /\ IsZero(np_mean(orders))) =>
        /\ cv_result.done => cv_result.raised
        /\ bw_result.done => bw_result.raised

\* C10: on valid inputs the k-th multiplier examined is
\* min_scale + (k-1)*step, each is strictly greater than the one before and
\* each is strictly less than max_scale.
C10_HalfOpenProgression ==
    ValidInputs =>
        \A k \in 1..Len(history) :
            /\ history[k].scale_multiplier =
                   FAdd(min_scale, FMul(IntToFloat(k - 1), step))
            /\ k > 1 => FLt(history[k - 1].scale_multiplier,
                            history[k].scale_multiplier)
            /\ FLt(history[k].scale_multiplier, max_scale)

\* the scan ran through the whole array without a break
Exhausted == Finished /\ ~broke

\* C11 as stated: after an exhausted scan over a valid range the number of
\* candidates examined is floor((max_scale - min_scale) / step).
C11_FloorCount ==
    (Exhausted /\ ValidRange) =>
        LET q == FDiv(FSub(max_scale, min_scale), step)
            whole == q.e >= 0 \/ q.m % 2^(0 - q.e) = 0
        IN scales_tried = IF whole THEN FCeil(q) ELSE FCeil(q) - 1

\* C11 amended: after an exhausted scan over a valid range the number of
\* candidates examined is the ceiling of the floating-point quotient
\* (max_scale - min_scale) / step.
C11_CeilCount ==
    (Exhausted /\ ValidRange) =>
        scales_tried = FCeil(FDiv(FSub(max_scale, min_scale), step))

\* an exhausted scan, on valid inputs, of a range that is not a whole number
\* of steps
C11_Witness ==
    /\ Exhausted
    /\ ValidInputs
    /\ scales_tried >= 2
    /\ LET q == FDiv(FSub(max_scale, min_scale), step)
       IN q.e < 0 /\ q.m % 2^(0 - q.e) # 0

\* the statements executed so far, counted by position: before the loop,
\* iteration by iteration, the summary, the end of the call
Progress ==
    IF pc = "start" THEN 0
    ELSE IF pc = "loop" THEN 1 + it
    ELSE IF pc = "report" THEN 2 + Len(multipliers)
    ELSE 3 + Len(multipliers)

\* some statement remains to execute: the guard of Start, of Iterate, of
\* Exhaust or of Report holds
CanStep ==
    \/ pc = "start"
    \/ pc = "loop" /\ it < Len(multipliers)
    \/ pc = "loop" /\ it = Len(multipliers)
    \/ pc = "report"

\* C12: on valid inputs the call always ends within a number of iterations
\* bounded by the size of the progression (the iterations never exceed the
\* points of the progression, no state before the end is stuck, and every
\* step advances the call towards a bounded position), and the loop is left
\* only when the array is exhausted or when the candidate just examined has
\* cv_error <= target_cv_error.
C12_TerminatesTwoWays ==
    /\ [](ValidInputs => (it <= Len(Progression) /\ (Ended \/ CanStep)))
    /\ [][Progress' > Progress /\ Progress' <= 3 + Len(multipliers')]_vars
    /\ [][(pc = "loop" /\ pc' # "loop") =>
            \/ it' = it /\ it = Len(multipliers)
            \/ /\ it' = it + 1
               /\ FLe(history'[it'].cv_error, target_cv_error)]_vars

\* a call on valid inputs that returned after scanning a progression of
\* several points to its end
C12_Witness ==
    /\ pc = "returned"
    /\ ValidInputs
    /\ ~broke
    /\ it = Len(multipliers)
    /\ it >= 3

\* C13: a second call with the same original_data, target_mean,
\* target_cv_error, min_scale, max_scale and step ends as the first one did,
\* with the same best_scale, the same integer series and the same
\* scales_tried, whatever the first call left behind.
C13_SameInputsSameResult ==
    (calls = 1 /\ Ended) => Outcome = first_call

\* a second call that returned a candidate after the first call had ended
\* with another best_error than the initial one
C13_Witness ==
    /\ calls = 1
    /\ pc = "returned"
    /\ ValidInputs
    /\ result.best_data # None
    /\ scales_tried >= 2
    /\ first_call.ended

\* main, lines 124-132: the error of a returned series, computed again from
\* the series and the original data alone
cv_error_rounded(optimal_data, original_values) ==
    LET ocv == calculate_cv(original_values)
        rounded_cv == calculate_cv(AsFloats(optimal_data))
    IN FDiv(FAbs(FSub(rounded_cv, ocv)), ocv)

\* C14: when a candidate is returned, best_error, best_scale and best_data
\* belong to one examined candidate: best_data is the rounding of
\* original_data * best_scale, best_scale is base_scale times that
\* candidate's multiplier, and best_error equals
\* |cv(best_data) - cv(original_data)| / cv(original_data) computed again
\* from the returned series.
C14_ReturnedCandidateConsistent ==
    (pc = "returned" /\ result.best_data # None) =>
        /\ \E j \in 1..Len(history) :
              /\ result.best_scale = FMul(base_scale, multipliers[j])
              /\ result.best_data = Some(history[j].rounded_data)
              /\ best_error = history[j].cv_error
        /\ result.best_data.val =
              [i \in 1..Len(original_data) |->
                 RoundCast(FMul(original_data[i], result.best_scale), arch)]
        /\ best_error = cv_error_rounded(result.best_data.val, original_data)

\* a candidate returned after a later candidate with another rounded series
\* was examined and rejected
C14_Witness ==
    /\ pc = "returned"
    /\ ValidInputs
    /\ result.best_data # None
    /\ Len(history) >= 2
    /\ history[Len(history)].rounded_data # result.best_data.val

\* C15: for every candidate examined, rounded_data has the length of
\* original_data and its i-th element is the rounding of
\* original_data[i] * scale_factor alone: no position is reordered, dropped
\* or merged.
C15_ElementwiseSameLength ==
    \A j \in 1..Len(history) :
       /\ Len(history[j].rounded_data) = Len(original_data)
       /\ DOMAIN history[j].rounded_data = DOMAIN original_data
       /\ \A i \in 1..Len(original_data) :
             history[j].rounded_data[i] =
                RoundCast(FMul(original_data[i], history[j].scale_factor), arch)

\* several candidates examined on a series of two different values whose
\* roundings differ
C15_Witness ==
    /\ ValidInputs
    /\ Len(history) >= 3
    /\ Len(original_data) = 2
    /\ original_data[1] # original_data[2]
    /\ \A j \in 1..Len(history) :
          history[j].rounded_data[1] # history[j].rounded_data[2]

\* 2 * |r - x| compared with 1, in units of 2^x.e, for a finite x that is
\* not a whole number
TwiceDistance(x, r) ==
    LET d == r * 2^(0 - x.e) - x.s * x.m
    IN 2 * (IF d < 0 THEN 0 - d ELSE d)

\* x lies exactly halfway between two integers
IsTie(x) ==
    /\ IsFin(x)
    /\ x.m # 0
    /\ x.e < 0
    /\ 0 - x.e <= Precision
    /\ x.m % 2^(0 - x.e) = 2^(0 - x.e - 1)

\* r is the integer nearest to the finite x, the even one of the two when x
\* is halfway between them
NearestTiesToEven(x, r) ==
    IF x.m = 0 THEN r = 0
    ELSE IF x.e >= 0 THEN r = x.s * x.m * 2^(x.e)
    ELSE IF 0 - x.e > Precision + 1 THEN r = 0
    ELSE /\ TwiceDistance(x, r) <= 2^(0 - x.e)
         /\ TwiceDistance(x, r) = 2^(0 - x.e) => r % 2 = 0

\* C16: every element of every candidate examined is rounded by one rule:
\* a finite scaled value that is not halfway between two integers goes to
\* the nearest integer and a value exactly at .5 goes to the even
\* neighbour, so that 0.5 -> 0, 1.5 -> 2 and 2.5 -> 2.
C16_RoundHalfToEven ==
    /\ \A j \in 1..Len(history) : \A i \in 1..Len(original_data) :
          LET x == FMul(original_data[i], history[j].scale_factor)
          IN IsFin(x) => NearestTiesToEven(x, history[j].rounded_data[i])
    /\ \A j \in 1..Len(history) : \A i \in 1..Len(original_data) :
          LET x == FMul(original_data[i], history[j].scale_factor)
              r == history[j].rounded_data[i]
          IN /\ FEq(FAbs(x), Dec(1, 2)) => r = 0
             /\ FEq(FAbs(x), Dec(3, 2)) => r = x.s * 2
             /\ FEq(FAbs(x), Dec(5, 2)) => r = x.s * 2

\* a candidate on valid inputs with one element at a tie that goes down in
\* magnitude (2.5 -> 2) and another at a tie that goes up (7.5 -> 8)
C16_Witness ==
    /\ ValidInputs
    /\ \E j \in 1..Len(history) :
          LET x1 == FMul(original_data[1], history[j].scale_factor)
              x2 == FMul(original_data[2], history[j].scale_factor)
          IN /\ Len(original_data) = 2
             /\ IsTie(x1) /\ FEq(FAbs(x1), Dec(5, 2))
             /\ IsTie(x2) /\ FEq(x2, Dec(15, 2))
             /\ history[j].rounded_data = <<-2, 8>>

\* C17: optimize_scaling never changes original_data, so that the caller's
\* series is the same after the call has ended by break or by exhaustion,
\* and a later call reads nothing an earlier call wrote: when its scan
\* begins, every variable the scan reads holds a value made from the
\* arguments of this call alone.
C17_InputUntouchedNoCarryOver ==
    /\ [][original_data' = original_data]_vars
    /\ []((calls = 1 /\ pc = "loop" /\ it = 0) =>
            /\ original_cv = calculate_cv(original_data)
            /\ original_mean = np_mean(original_data)
            /\ base_scale = BaseScale(target_mean, np_mean(original_data))
            /\ best_error = Inf(1)
            /\ best_scale = base_scale
            /\ best_data = None
            /\ scales_tried = 0
            /\ multipliers = Progression)

\* a second call that went through every multiplier and returned, after a
\* first call on the same series had returned a candidate
C17_Witness ==
    /\ calls = 1
    /\ pc = "returned"
    /\ ValidInputs
    /\ ~broke
    /\ it = Len(multipliers)
    /\ it >= 2
    /\ first_call.pc = "returned"
    /\ first_call.result.best_data # None

\* line 55 has handed out the next multiplier of an iteration that is not
\* the first one
AtLaterIteration == pc = "loop" /\ it >= 1 /\ it < Len(multipliers)

\* C18: on valid inputs, at the start of every iteration after the first,
\* best_error is the minimum cv_error of the candidates examined so far and
\* is strictly greater than target_cv_error; best_error never increases
\* from one iteration to the next; and every candidate whose
\* cv_error <= target_cv_error makes the loop break.
C18_LoopInvariant ==
    /\ []((AtLaterIteration /\ ValidInputs) =>
            /\ IsMinError(best_error, history)
            /\ FLt(target_cv_error, best_error))
    /\ [][(pc = "loop" /\ pc' = "loop") => FLe(best_error', best_error)]_vars
    /\ [][(pc = "loop" /\ it' = it + 1
             /\ FLe(history'[it'].cv_error, target_cv_error)) => broke']_vars

====
